---- MODULE Spec2Model ----
(***************************************************************************)
(* Model of the tax calculation service of crypto_tracker                  *)
(* (src/src/services/tax_calculator.py) over the transactions and          *)
(* tax_records tables it reads and writes.                                 *)
(*                                                                         *)
(* Quantities and unit prices are integer-valued Decimals.  Monetary       *)
(* results (cost_basis, proceeds, gain_loss, totals, average cost) are     *)
(* counted in units of 10^-DecimalPlaces so that the quotient of the       *)
(* average-cost method keeps a fractional part; the quotient is rounded    *)
(* half-even as Python's default Decimal context does.                     *)
(*                                                                         *)
(* An Optional column is <<>> for None and <<v>> for the value v.          *)
(***************************************************************************)
EXTENDS Integers, Sequences, FiniteSets, TLC

VARIABLES
    transactions,   \* rows of the transactions table, in insertion order
    tax_records,    \* committed rows of the tax_records table, in insertion order
    runs            \* history: one entry per completed calculate_* call

vars == <<transactions, tax_records, runs>>

----------------------------------------------------------------------------
(* Bounds of the exploration *)

MaxTx == 4
MaxRuns == 1
MaxTxRerun == 3
MaxReruns == 2
DecimalPlaces == 2

Scale == 10 ^ DecimalPlaces

----------------------------------------------------------------------------
(* Values *)

None == <<>>
Some(v) == <<v>>

\* `x or Decimal("0")`, `x if x else Decimal("0")`: None and 0 both give 0
OrZero(x) == IF x = None THEN 0 ELSE x[1]

Min(a, b) == IF a <= b THEN a ELSE b

Money(x) == x * Scale

\* n / den (den > 0) rounded half-even to an integer
RoundHalfEven(n, den) ==
    LET q == n \div den
        r == n % den
    IN  IF 2 * r > den THEN q + 1
        ELSE IF 2 * r = den THEN (IF q % 2 = 0 THEN q ELSE q + 1)
        ELSE q

\* Decimal division num / den (den > 0) of two integers, in money units
DecimalDivide(num, den) == RoundHalfEven(num * Scale, den)

BuyTypes == {"buy", "transfer_in"}
SellTypes == {"sell", "swap", "transfer_out"}

WalletIds == {1, 2}

\* created_at is [year, tick]; the clock order is lexicographic.
\* `TransactionModel.created_at.year == year` is read as the filter on the
\* calendar year of created_at.
NotAfter(a, b) == a.year < b.year \/ (a.year = b.year /\ a.tick <= b.tick)

----------------------------------------------------------------------------
(* Queries *)

\* .order_by(created_at.asc()) / .order_by(created_at.desc()): rows with equal
\* keys keep the order of the scan, which is the insertion order of the table.
RECURSIVE InsertOrdered(_, _, _)
InsertOrdered(x, s, desc) ==
    IF s = <<>> THEN <<x>>
    ELSE IF (IF desc THEN NotAfter(x.created_at, Head(s).created_at)
                     ELSE NotAfter(Head(s).created_at, x.created_at))
         THEN <<Head(s)>> \o InsertOrdered(x, Tail(s), desc)
         ELSE <<x>> \o s

RECURSIVE OrderByCreatedAt(_, _)
OrderByCreatedAt(s, desc) ==
    IF s = <<>> THEN <<>>
    ELSE InsertOrdered(s[Len(s)], OrderByCreatedAt(SubSeq(s, 1, Len(s) - 1), desc), desc)

\* Faulty variant: the buy query without its wallet condition
BuyFilter_AnyWallet(t, wallet_id, year, token) ==
    /\ t.tx_type \in BuyTypes
    /\ t.created_at.year = year
    /\ (token # None => t.token_out = token[1])

BuyFilter(t, wallet_id, year, token) ==
    /\ t.wallet_id = wallet_id
    /\ t.tx_type \in BuyTypes
    /\ t.created_at.year = year
    /\ (token # None => t.token_out = token[1])

\* Faulty variant: the sell query without its year condition
SellFilter_AnyYear(t, wallet_id, year, token) ==
    /\ t.wallet_id = wallet_id
    /\ t.tx_type \in SellTypes
    /\ (token # None => (t.token_in = token[1] \/ t.token_out = token[1]))

SellFilter(t, wallet_id, year, token) ==
    /\ t.wallet_id = wallet_id
    /\ t.tx_type \in SellTypes
    /\ t.created_at.year = year
    /\ (token # None => (t.token_in = token[1] \/ t.token_out = token[1]))

BuyRows(wallet_id, year, token) ==
    SelectSeq(transactions, LAMBDA t : BuyFilter(t, wallet_id, year, token))

SellRows(wallet_id, year, token) ==
    SelectSeq(transactions, LAMBDA t : SellFilter(t, wallet_id, year, token))

----------------------------------------------------------------------------
(* The matching step shared in text by calculate_fifo and calculate_lifo *)

\* Faulty variant: what was already taken from the lot is not counted
AvailableToSell_WholeLot(buy_tx, remaining_buy_amount) ==
    OrZero(buy_tx.amount_out)

AvailableToSell(buy_tx, remaining_buy_amount) ==
    OrZero(buy_tx.amount_out) - remaining_buy_amount

\* Faulty variant: a lot is drawn one unit at a time
SellAmount_UnitByUnit(remaining_to_sell, available_to_sell) == 1

SellAmount(remaining_to_sell, available_to_sell) ==
    Min(remaining_to_sell, available_to_sell)

CostBasis(sell_amount, buy_tx) == Money(sell_amount * OrZero(buy_tx.price_usd_in))

\* Faulty variant: the price of the other leg is read
Proceeds_OtherLeg(sell_amount, sell_tx) ==
    Money(sell_amount * OrZero(sell_tx.price_usd_in))

\* Faulty variant: the fee of the sell is taken off each portion's proceeds
Proceeds_LessFee(sell_amount, sell_tx) ==
    Money(sell_amount * OrZero(sell_tx.price_usd_out)) - Money(sell_tx.fee)

Proceeds(sell_amount, sell_tx) == Money(sell_amount * OrZero(sell_tx.price_usd_out))

\* Faulty variant: the sell is taken as settled by the first lot it touches
RemainingToSellAfter_Settled(remaining_to_sell, sell_amount) == 0

RemainingToSellAfter(remaining_to_sell, sell_amount) ==
    remaining_to_sell - sell_amount

\* Faulty variant: the consumed amount is overwritten instead of accumulated
RemainingBuyAmountAfter_Overwritten(remaining_buy_amount, sell_amount) ==
    sell_amount

RemainingBuyAmountAfter(remaining_buy_amount, sell_amount) ==
    remaining_buy_amount + sell_amount

TaxRecord(wallet_id, sell_tx, gain_loss, cost_basis, proceeds, method, year) ==
    [wallet_id |-> wallet_id, transaction_id |-> sell_tx.id,
     gain_loss |-> gain_loss, cost_basis |-> cost_basis, proceeds |-> proceeds,
     tax_method |-> method, year |-> year]

\* Faulty variant: the totals are kept from the call before instead of starting at 0
StartState_Carried ==
    [total_gain_loss |->
        IF runs = <<>> THEN 0 ELSE runs[Len(runs)].result.total_gain_loss,
     total_cost_basis |->
        IF runs = <<>> THEN 0 ELSE runs[Len(runs)].result.total_cost_basis,
     total_proceeds |->
        IF runs = <<>> THEN 0 ELSE runs[Len(runs)].result.total_proceeds,
     buy_index |-> 0, remaining_buy_amount |-> 0, remaining_to_sell |-> 0,
     added |-> <<>>, matches |-> <<>>, ends |-> <<>>, warnings |-> <<>>,
     iterations |-> 0]

\* State of a calculation before its first sell.  added: the rows given to
\* session.add; matches, ends: what each iteration and each sell did (history
\* only, not stored); warnings: the logger.warning calls; iterations: how
\* often the body of the while loop was entered (history only).
StartState ==
    [total_gain_loss |-> 0, total_cost_basis |-> 0, total_proceeds |-> 0,
     buy_index |-> 0, remaining_buy_amount |-> 0, remaining_to_sell |-> 0,
     added |-> <<>>, matches |-> <<>>, ends |-> <<>>, warnings |-> <<>>,
     iterations |-> 0]

\* Faulty variant: the record of a match is given to session.add twice
Matched_AddedTwice(st, wallet_id, year, method, buy_tx, sell_tx, available_to_sell) ==
    LET sell_amount == SellAmount(st.remaining_to_sell, available_to_sell)
        cost_basis == CostBasis(sell_amount, buy_tx)
        proceeds == Proceeds(sell_amount, sell_tx)
        gain_loss == proceeds - cost_basis
        row == TaxRecord(wallet_id, sell_tx, gain_loss, cost_basis, proceeds,
                         method, year)
    IN  [st EXCEPT
            !.total_gain_loss = @ + gain_loss,
            !.total_cost_basis = @ + cost_basis,
            !.total_proceeds = @ + proceeds,
            !.added = @ \o <<row, row>>,
            !.matches = Append(@, [sell_id |-> sell_tx.id, buy_id |-> buy_tx.id,
                                   sell_amount |-> sell_amount,
                                   available |-> available_to_sell]),
            !.remaining_to_sell = RemainingToSellAfter(@, sell_amount),
            !.remaining_buy_amount = RemainingBuyAmountAfter(@, sell_amount),
            !.iterations = @ + 1]

Matched(st, wallet_id, year, method, buy_tx, sell_tx, available_to_sell) ==
    LET sell_amount == SellAmount(st.remaining_to_sell, available_to_sell)
        cost_basis == CostBasis(sell_amount, buy_tx)
        proceeds == Proceeds(sell_amount, sell_tx)
        gain_loss == proceeds - cost_basis
    IN  [st EXCEPT
            !.total_gain_loss = @ + gain_loss,
            !.total_cost_basis = @ + cost_basis,
            !.total_proceeds = @ + proceeds,
            !.added = Append(@, TaxRecord(wallet_id, sell_tx, gain_loss,
                                          cost_basis, proceeds, method, year)),
            !.matches = Append(@, [sell_id |-> sell_tx.id, buy_id |-> buy_tx.id,
                                   sell_amount |-> sell_amount,
                                   available |-> available_to_sell]),
            !.remaining_to_sell = RemainingToSellAfter(@, sell_amount),
            !.remaining_buy_amount = RemainingBuyAmountAfter(@, sell_amount),
            !.iterations = @ + 1]

\* while remaining_to_sell > 0 and buy_index < len(buy_transactions)
RECURSIVE MatchLoop(_, _, _, _, _, _)
MatchLoop(st, wallet_id, year, method, buys, sell_tx) ==
    IF st.remaining_to_sell > 0 /\ st.buy_index < Len(buys)
    THEN LET buy_tx == buys[st.buy_index + 1]
             available_to_sell == AvailableToSell(buy_tx, st.remaining_buy_amount)
         IN  IF available_to_sell <= 0
             THEN MatchLoop([st EXCEPT !.buy_index = @ + 1,
                                       !.remaining_buy_amount = 0,
                                       !.iterations = @ + 1],
                            wallet_id, year, method, buys, sell_tx)
             ELSE MatchLoop(Matched(st, wallet_id, year, method, buy_tx, sell_tx,
                                    available_to_sell),
                            wallet_id, year, method, buys, sell_tx)
    ELSE st

SellStart(st, sell_tx) ==
    [st EXCEPT !.remaining_to_sell = OrZero(sell_tx.amount_in)]

SellEnd(st, sell_tx) ==
    [st EXCEPT !.ends = Append(@, [sell_id |-> sell_tx.id,
                                   remaining_to_sell |-> st.remaining_to_sell])]

\* logger.warning("Insufficient cost basis for FIFO calculation on <tx_hash>")
FifoWarning(st, sell_tx) ==
    IF st.remaining_to_sell > 0
    THEN [st EXCEPT !.warnings = Append(@, [tx_hash |-> sell_tx.tx_hash])]
    ELSE st

\* for sell_tx in sell_transactions, calculate_fifo
RECURSIVE FifoSells(_, _, _, _, _, _)
FifoSells(st, wallet_id, year, buys, sells, i) ==
    IF i > Len(sells) THEN st
    ELSE LET sell_tx == sells[i]
             after == MatchLoop(SellStart(st, sell_tx), wallet_id, year, "FIFO",
                                buys, sell_tx)
         IN  FifoSells(FifoWarning(SellEnd(after, sell_tx), sell_tx),
                       wallet_id, year, buys, sells, i + 1)

\* for sell_tx in sell_transactions, calculate_lifo (no warning is logged)
RECURSIVE LifoSells(_, _, _, _, _, _)
LifoSells(st, wallet_id, year, buys, sells, i) ==
    IF i > Len(sells) THEN st
    ELSE LET sell_tx == sells[i]
             after == MatchLoop(SellStart(st, sell_tx), wallet_id, year, "LIFO",
                                buys, sell_tx)
         IN  LifoSells(SellEnd(after, sell_tx), wallet_id, year, buys, sells, i + 1)

\* Faulty variant: the buy rows are read newest first
FifoRun_NewestFirst(wallet_id, year, token) ==
    FifoSells(StartState, wallet_id, year,
              OrderByCreatedAt(BuyRows(wallet_id, year, token), TRUE),
              OrderByCreatedAt(SellRows(wallet_id, year, token), FALSE), 1)

FifoRun(wallet_id, year, token) ==
    FifoSells(StartState, wallet_id, year,
              OrderByCreatedAt(BuyRows(wallet_id, year, token), FALSE),
              OrderByCreatedAt(SellRows(wallet_id, year, token), FALSE), 1)

\* Faulty variant: the buy rows are read oldest first
LifoRun_OldestFirst(wallet_id, year, token) ==
    LifoSells(StartState, wallet_id, year,
              OrderByCreatedAt(BuyRows(wallet_id, year, token), FALSE),
              OrderByCreatedAt(SellRows(wallet_id, year, token), FALSE), 1)

LifoRun(wallet_id, year, token) ==
    LifoSells(StartState, wallet_id, year,
              OrderByCreatedAt(BuyRows(wallet_id, year, token), TRUE),
              OrderByCreatedAt(SellRows(wallet_id, year, token), FALSE), 1)

\* total_gain_loss * Decimal("0.21"), in hundredths of a money unit
EstimatedTax(total_gain_loss) == total_gain_loss * 21

FifoResult(st, year) ==
    [method |-> "FIFO", year |-> year,
     total_gain_loss |-> st.total_gain_loss,
     total_cost_basis |-> st.total_cost_basis,
     total_proceeds |-> st.total_proceeds,
     tax_records_count |-> Some(0),      \* len(tax_records): the list is never appended to
     average_cost_per_unit |-> None,
     estimated_tax_usd |-> EstimatedTax(st.total_gain_loss)]

LifoResult(st, year) ==
    [method |-> "LIFO", year |-> year,
     total_gain_loss |-> st.total_gain_loss,
     total_cost_basis |-> st.total_cost_basis,
     total_proceeds |-> st.total_proceeds,
     tax_records_count |-> None,
     average_cost_per_unit |-> None,
     estimated_tax_usd |-> EstimatedTax(st.total_gain_loss)]

----------------------------------------------------------------------------
(* calculate_average_cost *)

\* for buy_tx in buy_transactions: total_bought, total_cost
RECURSIVE TotalBought(_)
TotalBought(buys) ==
    IF buys = <<>> THEN 0
    ELSE OrZero(Head(buys).amount_out) + TotalBought(Tail(buys))

RECURSIVE TotalCost(_)
TotalCost(buys) ==
    IF buys = <<>> THEN 0
    ELSE OrZero(Head(buys).amount_out) * OrZero(Head(buys).price_usd_in)
         + TotalCost(Tail(buys))

AverageCostPerUnit(buys) ==
    IF TotalBought(buys) > 0
    THEN DecimalDivide(TotalCost(buys), TotalBought(buys))
    ELSE 0

AverageSold(st, wallet_id, year, sell_tx, average_cost_per_unit) ==
    LET amount == OrZero(sell_tx.amount_in)
        price == OrZero(sell_tx.price_usd_out)
        cost_basis == amount * average_cost_per_unit
        proceeds == Money(amount * price)
        gain_loss == proceeds - cost_basis
    IN  [st EXCEPT
            !.total_gain_loss = @ + gain_loss,
            !.total_cost_basis = @ + cost_basis,
            !.total_proceeds = @ + proceeds,
            !.added = Append(@, TaxRecord(wallet_id, sell_tx, gain_loss,
                                          cost_basis, proceeds, "AVERAGE_COST", year))]

RECURSIVE AverageSells(_, _, _, _, _, _)
AverageSells(st, wallet_id, year, sells, average_cost_per_unit, i) ==
    IF i > Len(sells) THEN st
    ELSE AverageSells(AverageSold(st, wallet_id, year, sells[i], average_cost_per_unit),
                      wallet_id, year, sells, average_cost_per_unit, i + 1)

\* No order_by: both queries return the rows in the order of the scan.
AverageRun(wallet_id, year, token) ==
    AverageSells(StartState, wallet_id, year, SellRows(wallet_id, year, token),
                 AverageCostPerUnit(BuyRows(wallet_id, year, token)), 1)

AverageResult(st, wallet_id, year, token) ==
    [method |-> "AVERAGE_COST", year |-> year,
     total_gain_loss |-> st.total_gain_loss,
     total_cost_basis |-> st.total_cost_basis,
     total_proceeds |-> st.total_proceeds,
     tax_records_count |-> None,
     average_cost_per_unit |-> Some(AverageCostPerUnit(BuyRows(wallet_id, year, token))),
     estimated_tax_usd |-> EstimatedTax(st.total_gain_loss)]

----------------------------------------------------------------------------
(* get_annual_summary *)

RECURSIVE SumField(_, _)
SumField(recs, f) ==
    IF recs = <<>> THEN 0 ELSE Head(recs)[f] + SumField(Tail(recs), f)

StoredIn(table, wallet_id, year) ==
    SelectSeq(table, LAMBDA r : r.wallet_id = wallet_id /\ r.year = year)

MethodsOf(recs) == {recs[k].tax_method : k \in DOMAIN recs}

\* Faulty variant: the totals of a method count its gains only
SummaryOf_GainsOnly(table, wallet_id, year) ==
    LET recs == StoredIn(table, wallet_id, year)
        of(m) == SelectSeq(recs, LAMBDA r : r.tax_method = m /\ r.gain_loss > 0)
    IN  [wallet_id |-> wallet_id, year |-> year,
         total_gain_loss |-> SumField(recs, "gain_loss"),
         by_method |-> [m \in MethodsOf(recs) |->
                          [total_gain_loss |-> SumField(of(m), "gain_loss"),
                           total_cost_basis |-> SumField(of(m), "cost_basis"),
                           total_proceeds |-> SumField(of(m), "proceeds"),
                           records_count |-> Len(of(m))]],
         estimated_tax_usd |-> EstimatedTax(SumField(recs, "gain_loss"))]

\* The summary computed over the stored rows `table`
SummaryOf(table, wallet_id, year) ==
    LET recs == StoredIn(table, wallet_id, year)
        of(m) == SelectSeq(recs, LAMBDA r : r.tax_method = m)
    IN  [wallet_id |-> wallet_id, year |-> year,
         total_gain_loss |-> SumField(recs, "gain_loss"),
         by_method |-> [m \in MethodsOf(recs) |->
                          [total_gain_loss |-> SumField(of(m), "gain_loss"),
                           total_cost_basis |-> SumField(of(m), "cost_basis"),
                           total_proceeds |-> SumField(of(m), "proceeds"),
                           records_count |-> Len(of(m))]],
         estimated_tax_usd |-> EstimatedTax(SumField(recs, "gain_loss"))]

AnnualSummary(wallet_id, year) == SummaryOf(tax_records, wallet_id, year)

----------------------------------------------------------------------------
(* Operations *)

Init ==
    /\ transactions = <<>>
    /\ tax_records = <<>>
    /\ runs = <<>>

LatestCreatedAt ==
    IF transactions = <<>> THEN [year |-> 0, tick |-> 0]
    ELSE transactions[Len(transactions)].created_at

\* PortfolioService.record_transaction; created_at is the table's
\* DEFAULT CURRENT_TIMESTAMP, read from a clock that does not run backwards.
RecordTransaction(tx, now) ==
    /\ NotAfter(LatestCreatedAt, now)
    /\ IF tx.wallet_id \notin WalletIds
       THEN UNCHANGED transactions                  \* ValueError, rollback
       ELSE IF \E k \in DOMAIN transactions :
                    /\ transactions[k].wallet_id = tx.wallet_id
                    /\ transactions[k].tx_hash = tx.tx_hash
            THEN UNCHANGED transactions             \* "already_exists"
            ELSE transactions' = Append(transactions,
                     [id |-> Len(transactions) + 1, created_at |-> now] @@ tx)
    /\ UNCHANGED <<tax_records, runs>>

\* The session commits when the body returns: the added rows are stored.
Completed(method, wallet_id, year, token, st, result) ==
    /\ tax_records' = tax_records \o st.added
    /\ runs' = Append(runs,
            [method |-> method, wallet_id |-> wallet_id, year |-> year,
             token |-> token, tx_count |-> Len(transactions),
             result |-> result, records |-> st.added, matches |-> st.matches,
             ends |-> st.ends, warnings |-> st.warnings,
             iterations |-> st.iterations,
             stored_before |-> Len(tax_records), raised |-> FALSE])
    /\ UNCHANGED transactions

\* Faulty variant: the rows added before the exception are stored
Raised_Stored(method, wallet_id, year, token, st) ==
    /\ tax_records' = tax_records \o st.added
    /\ runs' = Append(runs,
            [method |-> method, wallet_id |-> wallet_id, year |-> year,
             token |-> token, tx_count |-> Len(transactions),
             result |-> None, records |-> st.added, matches |-> st.matches,
             ends |-> st.ends, warnings |-> st.warnings,
             iterations |-> st.iterations,
             stored_before |-> Len(tax_records), raised |-> TRUE])
    /\ UNCHANGED transactions

\* An exception leaves the body: the session rolls back and the exception
\* goes on to the caller, who gets no result.  records: the rows that had
\* been given to session.add by then.
Raised(method, wallet_id, year, token, st) ==
    /\ tax_records' = tax_records
    /\ runs' = Append(runs,
            [method |-> method, wallet_id |-> wallet_id, year |-> year,
             token |-> token, tx_count |-> Len(transactions),
             result |-> None, records |-> st.added, matches |-> st.matches,
             ends |-> st.ends, warnings |-> st.warnings,
             iterations |-> st.iterations,
             stored_before |-> Len(tax_records), raised |-> TRUE])
    /\ UNCHANGED transactions

CalculateFifo(wallet_id, year, token) ==
    LET st == FifoRun(wallet_id, year, token)
    IN  Completed("FIFO", wallet_id, year, token, st, FifoResult(st, year))

CalculateLifo(wallet_id, year, token) ==
    LET st == LifoRun(wallet_id, year, token)
    IN  Completed("LIFO", wallet_id, year, token, st, LifoResult(st, year))

CalculateAverageCost(wallet_id, year, token) ==
    LET st == AverageRun(wallet_id, year, token)
    IN  Completed("AVERAGE_COST", wallet_id, year, token, st,
                  AverageResult(st, wallet_id, year, token))

\* A calculation in which an exception is raised once j sells are processed
\* (j = 0: before the first)
CalculateFifoRaises(wallet_id, year, token, j) ==
    LET buys == OrderByCreatedAt(BuyRows(wallet_id, year, token), FALSE)
        sells == OrderByCreatedAt(SellRows(wallet_id, year, token), FALSE)
    IN  /\ j \in 0..Len(sells)
        /\ Raised("FIFO", wallet_id, year, token,
                  FifoSells(StartState, wallet_id, year, buys, SubSeq(sells, 1, j), 1))

CalculateLifoRaises(wallet_id, year, token, j) ==
    LET buys == OrderByCreatedAt(BuyRows(wallet_id, year, token), TRUE)
        sells == OrderByCreatedAt(SellRows(wallet_id, year, token), FALSE)
    IN  /\ j \in 0..Len(sells)
        /\ Raised("LIFO", wallet_id, year, token,
                  LifoSells(StartState, wallet_id, year, buys, SubSeq(sells, 1, j), 1))

CalculateAverageCostRaises(wallet_id, year, token, j) ==
    LET sells == SellRows(wallet_id, year, token)
    IN  /\ j \in 0..Len(sells)
        /\ Raised("AVERAGE_COST", wallet_id, year, token,
                  AverageSells(StartState, wallet_id, year, SubSeq(sells, 1, j),
                               AverageCostPerUnit(BuyRows(wallet_id, year, token)), 1))

----------------------------------------------------------------------------
(* Inputs *)

Buy(hash, q, p) ==
    [wallet_id |-> 1, tx_hash |-> hash, tx_type |-> "buy",
     token_in |-> "USD", token_out |-> "ETH",
     amount_in |-> None, amount_out |-> Some(q),
     price_usd_in |-> Some(p), price_usd_out |-> None, fee |-> 0]

Sell(hash, q, p) ==
    [wallet_id |-> 1, tx_hash |-> hash, tx_type |-> "sell",
     token_in |-> "ETH", token_out |-> "USD",
     amount_in |-> Some(q), amount_out |-> None,
     price_usd_in |-> None, price_usd_out |-> Some(p), fee |-> 0]

\* A new hash, or the hash of the first row (a repeated submission)
Hashes == {1, Len(transactions) + 1}

TxInputs ==
    {Buy(h, 10, p) : h \in Hashes, p \in {1, 2}}
    \cup {Sell(h, q, 3) : h \in Hashes, q \in {4, 6, 15}}

\* The next clock reading, one tick after the latest row
NextTick == [year |-> 2024, tick |-> Len(transactions) + 1]

\* The ledger is recorded, then calculations are run on it
Next ==
    \/ \E tx \in TxInputs :
          /\ runs = <<>>
          /\ Len(transactions) < MaxTx
          /\ RecordTransaction(tx, NextTick)
    \/ Len(runs) < MaxRuns /\ CalculateFifo(1, 2024, Some("ETH"))
    \/ Len(runs) < MaxRuns /\ CalculateLifo(1, 2024, Some("ETH"))
    \/ Len(runs) < MaxRuns /\ CalculateAverageCost(1, 2024, Some("ETH"))

Spec == Init /\ [][Next]_vars

TxInputsRerun ==
    {Buy(h, 10, p) : h \in Hashes, p \in {1, 2}}
    \cup {Sell(h, q, 3) : h \in Hashes, q \in {6, 15}}

\* Recording and calculating in any order, with room for repeated
\* calculations on one table
NextRerun ==
    \/ \E tx \in TxInputsRerun :
          Len(transactions) < MaxTxRerun /\ RecordTransaction(tx, NextTick)
    \/ Len(runs) < MaxReruns /\ CalculateFifo(1, 2024, None)
    \/ Len(runs) < MaxReruns /\ CalculateLifo(1, 2024, None)
    \/ Len(runs) < MaxReruns /\ CalculateAverageCost(1, 2024, None)

SpecRerun == Init /\ [][NextRerun]_vars

----------------------------------------------------------------------------
(* Reading the history *)

TxById(id) == transactions[id]

\* The run's buy and sell rows, as its queries returned them
RunBuys(r) ==
    OrderByCreatedAt(BuyRows(r.wallet_id, r.year, r.token), r.method = "LIFO")

RunSells(r) == SellRows(r.wallet_id, r.year, r.token)

\* A run is current when no transaction was recorded after it
Current(r) == r.tx_count = Len(transactions)

MatchesOf(r, sell_id) == SelectSeq(r.matches, LAMBDA m : m.sell_id = sell_id)

RecordsOf(r, sell_id) == SelectSeq(r.records, LAMBDA x : x.transaction_id = sell_id)

\* The warnings of the run that name the sell (by its tx_hash)
WarningsOf(r, sell_id) ==
    SelectSeq(r.warnings, LAMBDA w : w.tx_hash = TxById(sell_id).tx_hash)

\* What the sell's loop left unmatched in the run
UnmatchedOf(r, sell_id) ==
    LET j == CHOOSE j \in DOMAIN r.ends : r.ends[j].sell_id = sell_id
    IN  r.ends[j].remaining_to_sell

RECURSIVE SumAmounts(_)
SumAmounts(ms) ==
    IF ms = <<>> THEN 0 ELSE Head(ms).sell_amount + SumAmounts(Tail(ms))

\* Quantity drawn from lot buy_id by the first n matches of a run
RECURSIVE DrawnFrom(_, _, _)
DrawnFrom(ms, buy_id, n) ==
    IF n = 0 THEN 0
    ELSE (IF ms[n].buy_id = buy_id THEN ms[n].sell_amount ELSE 0)
         + DrawnFrom(ms, buy_id, n - 1)

----------------------------------------------------------------------------
(* Claims *)

\* C1 (Conservation): in a FIFO or LIFO run, a sell whose matching loop ends
\* with remaining_to_sell = 0 has one tax record per matched portion, and the
\* matched portions add up to the sell's amount_in.
C1_Conservation ==
    \A k \in DOMAIN runs :
        LET r == runs[k] IN
        r.method \in {"FIFO", "LIFO"} =>
            \A j \in DOMAIN r.ends :
                LET e == r.ends[j] IN
                e.remaining_to_sell = 0 =>
                    /\ Len(RecordsOf(r, e.sell_id)) = Len(MatchesOf(r, e.sell_id))
                    /\ SumAmounts(MatchesOf(r, e.sell_id))
                         = OrZero(TxById(e.sell_id).amount_in)

\* A LIFO run matched a sell of 15 across two lots, leaving nothing unmatched
C1_Witness ==
    \E k \in DOMAIN runs :
        /\ runs[k].method = "LIFO"
        /\ \E j \in DOMAIN runs[k].ends :
              /\ runs[k].ends[j].remaining_to_sell = 0
              /\ TxById(runs[k].ends[j].sell_id).amount_in = Some(15)
              /\ Len(MatchesOf(runs[k], runs[k].ends[j].sell_id)) = 2

\* Position of a lot in the run's ordered buy rows
LotIndex(r, buy_id) ==
    CHOOSE i \in DOMAIN RunBuys(r) : RunBuys(r)[i].id = buy_id

\* Each match of the run draws from a lot at or after the lot of the match
\* before it, and every lot placed before the one drawn from is used up.
LotsInOrder(r) ==
    \A n \in DOMAIN r.matches :
        LET at == LotIndex(r, r.matches[n].buy_id) IN
        /\ n > 1 => LotIndex(r, r.matches[n - 1].buy_id) <= at
        /\ \A i \in 1..(at - 1) :
              DrawnFrom(r.matches, RunBuys(r)[i].id, n - 1)
                = (IF OrZero(RunBuys(r)[i].amount_out) > 0
                   THEN OrZero(RunBuys(r)[i].amount_out) ELSE 0)

\* The table of the example: A1 (10 at cost 1), A2 (10 at cost 2), in that
\* order, and one sell of 15
ExampleTable(r) ==
    /\ Len(RunSells(r)) = 1
    /\ RunSells(r)[1].amount_in = Some(15)
    /\ Len(BuyRows(r.wallet_id, r.year, r.token)) = 2
    /\ BuyRows(r.wallet_id, r.year, r.token)[1].price_usd_in = Some(1)
    /\ BuyRows(r.wallet_id, r.year, r.token)[2].price_usd_in = Some(2)
    /\ \A i \in 1..2 : BuyRows(r.wallet_id, r.year, r.token)[i].amount_out = Some(10)

Portions(r) == [n \in DOMAIN r.matches |->
                   <<r.matches[n].buy_id, r.matches[n].sell_amount>>]

\* C2 (FIFO ordering): a FIFO run reads the lots in ascending created_at order
\* and draws from a lot only when every earlier lot is used up; on the example
\* it takes 10 from A1, then 5 from A2, with total cost basis 20.
C2_FifoOrdering ==
    \A k \in DOMAIN runs :
        LET r == runs[k] IN
        (r.method = "FIFO" /\ Current(r)) =>
            /\ \A i \in 1..(Len(RunBuys(r)) - 1) :
                  NotAfter(RunBuys(r)[i].created_at, RunBuys(r)[i + 1].created_at)
            /\ LotsInOrder(r)
            /\ ExampleTable(r) =>
                  LET b == BuyRows(r.wallet_id, r.year, r.token) IN
                  /\ Portions(r) = << <<b[1].id, 10>>, <<b[2].id, 5>> >>
                  /\ r.result.total_cost_basis = Money(20)

C2_Witness ==
    \E k \in DOMAIN runs :
        /\ runs[k].method = "FIFO"
        /\ Current(runs[k])
        /\ ExampleTable(runs[k])
        /\ Len(runs[k].matches) = 2

\* C3 (LIFO ordering): a LIFO run reads the lots in descending created_at order
\* and draws from a lot only when every later lot is used up; on the example
\* it takes 10 from A2, then 5 from A1, with total cost basis 25.
C3_LifoOrdering ==
    \A k \in DOMAIN runs :
        LET r == runs[k] IN
        (r.method = "LIFO" /\ Current(r)) =>
            /\ \A i \in 1..(Len(RunBuys(r)) - 1) :
                  NotAfter(RunBuys(r)[i + 1].created_at, RunBuys(r)[i].created_at)
            /\ LotsInOrder(r)
            /\ ExampleTable(r) =>
                  LET b == BuyRows(r.wallet_id, r.year, r.token) IN
                  /\ Portions(r) = << <<b[2].id, 10>>, <<b[1].id, 5>> >>
                  /\ r.result.total_cost_basis = Money(25)

C3_Witness ==
    \E k \in DOMAIN runs :
        /\ runs[k].method = "LIFO"
        /\ Current(runs[k])
        /\ ExampleTable(runs[k])
        /\ Len(runs[k].matches) = 2

\* The pool of the average-cost method as the claim describes it: the
\* quantity held and its cost after the first n rows of the table that the
\* run selects, buys adding to both and sells taking out their quantity at the
\* average of that moment; a sell of more than is held empties the pool.
RECURSIVE PoolAfter(_, _)
PoolAfter(r, n) ==
    IF n = 0 THEN [quantity |-> 0, cost |-> 0]
    ELSE LET t == transactions[n]
             p == PoolAfter(r, n - 1)
         IN  IF BuyFilter(t, r.wallet_id, r.year, r.token)
             THEN [quantity |-> p.quantity + OrZero(t.amount_out),
                   cost |-> p.cost + Money(OrZero(t.amount_out) * OrZero(t.price_usd_in))]
             ELSE IF ~SellFilter(t, r.wallet_id, r.year, r.token) THEN p
             ELSE IF p.quantity > 0 /\ OrZero(t.amount_in) <= p.quantity
             THEN [quantity |-> p.quantity - OrZero(t.amount_in),
                   cost |-> p.cost - OrZero(t.amount_in)
                                      * RoundHalfEven(p.cost, p.quantity)]
             ELSE [quantity |-> 0, cost |-> 0]

\* C4 (Average-cost identity): the cost basis of each average-cost record is
\* the sold quantity times the average cost of the holdings just before that
\* sell (earlier buys and sells only), whenever the holdings cover the sell.
C4_AverageCostIdentity ==
    \A k \in DOMAIN runs :
        LET r == runs[k] IN
        (r.method = "AVERAGE_COST" /\ Current(r)) =>
            \A n \in DOMAIN r.records :
                LET sell == TxById(r.records[n].transaction_id)
                    pool == PoolAfter(r, sell.id - 1)
                IN  (pool.quantity > 0 /\ OrZero(sell.amount_in) <= pool.quantity) =>
                        r.records[n].cost_basis
                          = OrZero(sell.amount_in) * RoundHalfEven(pool.cost, pool.quantity)

\* Proceeds recorded for one sell by one run
ProceedsOf(r, sell_id) == SumField(RecordsOf(r, sell_id), "proceeds")

FullProceeds(sell_id) ==
    Money(OrZero(TxById(sell_id).amount_in) * OrZero(TxById(sell_id).price_usd_out))

SameInput(r1, r2) ==
    /\ r1.wallet_id = r2.wallet_id
    /\ r1.year = r2.year
    /\ r1.token = r2.token
    /\ r1.tx_count = r2.tx_count

\* C5 as claimed (Proceeds invariance on every input): each run, whatever its
\* method, records for every sell it selects proceeds of quantity times price.
C5_ProceedsEveryInput ==
    \A k \in DOMAIN runs :
        Current(runs[k]) =>
            \A j \in DOMAIN RunSells(runs[k]) :
                ProceedsOf(runs[k], RunSells(runs[k])[j].id)
                  = FullProceeds(RunSells(runs[k])[j].id)

\* C5 as amended (Proceeds invariance without shortfall): for a sell that a
\* FIFO or LIFO run matches with nothing left over, that run and every run of
\* any method on the same input record the same total proceeds for the sell,
\* quantity times price; FIFO and LIFO runs on the same input record the same
\* total proceeds for every sell, matched in full or not.
C5_ProceedsNoShortfall ==
    \A k \in DOMAIN runs : \A l \in DOMAIN runs :
        (runs[k].method \in {"FIFO", "LIFO"} /\ SameInput(runs[k], runs[l])) =>
            \A j \in DOMAIN runs[k].ends :
                LET e == runs[k].ends[j] IN
                /\ runs[l].method \in {"FIFO", "LIFO"} =>
                      ProceedsOf(runs[l], e.sell_id) = ProceedsOf(runs[k], e.sell_id)
                /\ e.remaining_to_sell = 0 =>
                      /\ ProceedsOf(runs[k], e.sell_id) = FullProceeds(e.sell_id)
                      /\ ProceedsOf(runs[l], e.sell_id) = FullProceeds(e.sell_id)

\* A FIFO run and an average-cost run on the same table, with a sell of 15
\* matched in full across two lots
C5_Witness ==
    \E k \in DOMAIN runs : \E l \in DOMAIN runs :
        /\ runs[k].method = "FIFO"
        /\ runs[l].method = "AVERAGE_COST"
        /\ SameInput(runs[k], runs[l])
        /\ \E j \in DOMAIN runs[k].ends :
              /\ runs[k].ends[j].remaining_to_sell = 0
              /\ TxById(runs[k].ends[j].sell_id).amount_in = Some(15)
              /\ Len(RecordsOf(runs[k], runs[k].ends[j].sell_id)) = 2
              /\ Len(RecordsOf(runs[l], runs[k].ends[j].sell_id)) = 1

StoredAfter(k) == SubSeq(tax_records, 1, runs[k].stored_before + Len(runs[k].records))

RowsOfMethod(table, r) ==
    SelectSeq(StoredIn(table, r.wallet_id, r.year), LAMBDA x : x.tax_method = r.method)

\* C7 (Idempotent re-run): when a method is run again on the same unchanged
\* transactions, the stored records of that wallet, year and method, and the
\* annual summary, are what they were after the first of these runs.
C7_IdempotentRerun ==
    \A k \in DOMAIN runs : \A l \in DOMAIN runs :
        (k < l /\ runs[k].method = runs[l].method /\ SameInput(runs[k], runs[l])
         /\ \A m \in k..l : runs[m].method = runs[k].method) =>
            /\ RowsOfMethod(StoredAfter(l), runs[k]) = RowsOfMethod(StoredAfter(k), runs[k])
            /\ SummaryOf(StoredAfter(l), runs[k].wallet_id, runs[k].year)
                 = SummaryOf(StoredAfter(k), runs[k].wallet_id, runs[k].year)

\* No buy row of the run was created before the sell
NoPriorAcquisition(r, sell) ==
    \A i \in DOMAIN RunBuys(r) :
        ~ NotAfter(RunBuys(r)[i].created_at, sell.created_at)

\* C8 (Shortfall with no acquisitions): under each method, a sell of quantity
\* q > 0 with no earlier acquisition gets no tax record and exactly one
\* warning, and what is left unmatched is q.
C8_ShortfallNoAcquisitions ==
    \A k \in DOMAIN runs :
        LET r == runs[k] IN
        Current(r) =>
            \A j \in DOMAIN RunSells(r) :
                LET sell == RunSells(r)[j] IN
                (OrZero(sell.amount_in) > 0 /\ NoPriorAcquisition(r, sell)) =>
                    /\ RecordsOf(r, sell.id) = <<>>
                    /\ Len(WarningsOf(r, sell.id)) = 1
                    /\ r.method \in {"FIFO", "LIFO"} =>
                          UnmatchedOf(r, sell.id) = OrZero(sell.amount_in)

\* C9 (Lot survival): in a FIFO run, a match that takes less than the lot has
\* left is followed by a match on the same lot, which then has exactly that
\* much less; every record's cost basis is its portion times the lot's
\* price_usd_in.  With a first lot of 10 and sells of 6 and then 4, the second
\* record takes the remaining 4 of the first lot at the first lot's price.
C9_LotSurvival ==
    \A k \in DOMAIN runs :
        LET r == runs[k]
            m == r.matches
        IN
        r.method = "FIFO" =>
            /\ \A n \in DOMAIN m :
                  r.records[n].cost_basis
                    = Money(m[n].sell_amount * OrZero(TxById(m[n].buy_id).price_usd_in))
            /\ \A n \in 1..(Len(m) - 1) :
                  m[n].sell_amount < m[n].available =>
                      /\ m[n + 1].buy_id = m[n].buy_id
                      /\ m[n + 1].available = m[n].available - m[n].sell_amount
            /\ (/\ Len(m) >= 2
                /\ m[1].available = 10 /\ m[1].sell_amount = 6
                /\ TxById(m[2].sell_id).amount_in = Some(4)) =>
                  /\ m[2].buy_id = m[1].buy_id
                  /\ m[2].sell_amount = 4
                  /\ r.records[2].cost_basis
                       = Money(4 * OrZero(TxById(m[1].buy_id).price_usd_in))

\* A FIFO run over two lots took 6 and then 4 from the first lot, and the
\* second lot was not touched
C9_Witness ==
    \E k \in DOMAIN runs :
        /\ runs[k].method = "FIFO"
        /\ Len(RunBuys(runs[k])) = 2
        /\ Len(runs[k].matches) = 2
        /\ runs[k].matches[1].available = 10
        /\ runs[k].matches[1].sell_amount = 6
        /\ runs[k].matches[2].sell_amount = 4
        /\ runs[k].matches[2].buy_id = runs[k].matches[1].buy_id

\* C10 (Partial shortfall is reported): in a FIFO or LIFO run, a sell that is
\* left with an unmatched quantity has records for exactly the matched part
\* and exactly one warning.
C10_PartialShortfallReported ==
    \A k \in DOMAIN runs :
        LET r == runs[k] IN
        r.method \in {"FIFO", "LIFO"} =>
            \A j \in DOMAIN r.ends :
                LET e == r.ends[j] IN
                e.remaining_to_sell > 0 =>
                    /\ SumAmounts(MatchesOf(r, e.sell_id))
                         = OrZero(TxById(e.sell_id).amount_in) - e.remaining_to_sell
                    /\ Len(RecordsOf(r, e.sell_id)) = Len(MatchesOf(r, e.sell_id))
                    /\ Len(WarningsOf(r, e.sell_id)) = 1

\* The quantity to which a run attributed a cost basis: the matched portions
\* of a FIFO or LIFO run, the sold amounts of the records of an average-cost
\* run
RECURSIVE SoldAmounts(_)
SoldAmounts(recs) ==
    IF recs = <<>> THEN 0
    ELSE OrZero(TxById(Head(recs).transaction_id).amount_in) + SoldAmounts(Tail(recs))

QuantityAttributed(r) ==
    IF r.method = "AVERAGE_COST" THEN SoldAmounts(r.records)
    ELSE SumAmounts(r.matches)

\* C11 (No fabricated lots): under every method, the quantity to which the
\* records of a run attribute a cost basis never exceeds the quantity bought
\* by the transactions the run selects.
C11_NoFabricatedLots ==
    \A k \in DOMAIN runs :
        LET r == runs[k] IN
        Current(r) => QuantityAttributed(r) <= TotalBought(RunBuys(r))

\* C12 (Acquisition before disposal): in a FIFO or LIFO run, every matched
\* portion draws from a buy that was recorded no later than the sell.
C12_AcquisitionBeforeDisposal ==
    \A k \in DOMAIN runs :
        LET r == runs[k] IN
        r.method \in {"FIFO", "LIFO"} =>
            \A n \in DOMAIN r.matches :
                NotAfter(TxById(r.matches[n].buy_id).created_at,
                         TxById(r.matches[n].sell_id).created_at)

----------------------------------------------------------------------------
(* Several tokens *)

BuyOf(wallet_id, token, hash, q, p) ==
    [wallet_id |-> wallet_id, tx_hash |-> hash, tx_type |-> "buy",
     token_in |-> "USD", token_out |-> token,
     amount_in |-> None, amount_out |-> Some(q),
     price_usd_in |-> Some(p), price_usd_out |-> None, fee |-> 0]

SellOf(wallet_id, token, hash, q, p) ==
    [wallet_id |-> wallet_id, tx_hash |-> hash, tx_type |-> "sell",
     token_in |-> token, token_out |-> "USD",
     amount_in |-> Some(q), amount_out |-> None,
     price_usd_in |-> None, price_usd_out |-> Some(p), fee |-> 0]

\* q units of one token given for as many units of another
SwapOf(wallet_id, given, received, hash, q, p) ==
    [wallet_id |-> wallet_id, tx_hash |-> hash, tx_type |-> "swap",
     token_in |-> given, token_out |-> received,
     amount_in |-> Some(q), amount_out |-> Some(q),
     price_usd_in |-> Some(p), price_usd_out |-> Some(p), fee |-> 0]

TxInputsTokens ==
    {BuyOf(1, "ETH", h, 10, 1) : h \in Hashes}
    \cup {BuyOf(1, "BTC", h, 10, 2) : h \in Hashes}
    \cup {SellOf(1, token, h, 6, 3) : h \in Hashes, token \in {"ETH", "BTC"}}
    \cup {SwapOf(1, "BTC", "ETH", h, 6, 3) : h \in Hashes}

\* A ledger of two tokens, calculated for one token or for the whole wallet
NextTokens ==
    \/ \E tx \in TxInputsTokens :
          /\ runs = <<>>
          /\ Len(transactions) < MaxTx
          /\ RecordTransaction(tx, NextTick)
    \/ \E token \in {None, Some("ETH")} :
          Len(runs) < MaxRuns /\ CalculateFifo(1, 2024, token)
    \/ \E token \in {None, Some("ETH")} :
          Len(runs) < MaxRuns /\ CalculateLifo(1, 2024, token)
    \/ \E token \in {None, Some("ETH")} :
          Len(runs) < MaxRuns /\ CalculateAverageCost(1, 2024, token)

SpecTokens == Init /\ [][NextTokens]_vars

\* C13 (Token isolation): a sell is matched only against buys of the token it
\* gives away: every matched portion of a FIFO or LIFO run pairs a buy and a
\* sell of one token, and every buy that enters the average of an
\* average-cost run is of the token of each sell it is applied to; with a
\* token filter and without.
C13_TokenIsolation ==
    \A k \in DOMAIN runs :
        LET r == runs[k] IN
        /\ r.method \in {"FIFO", "LIFO"} =>
              \A n \in DOMAIN r.matches :
                  TxById(r.matches[n].buy_id).token_out
                    = TxById(r.matches[n].sell_id).token_in
        /\ (r.method = "AVERAGE_COST" /\ Current(r)) =>
              \A n \in DOMAIN r.records :
                  \A i \in DOMAIN RunBuys(r) :
                      RunBuys(r)[i].token_out
                        = TxById(r.records[n].transaction_id).token_in

----------------------------------------------------------------------------
(* Several wallets *)

TxInputsWallets ==
    {BuyOf(1, "ETH", h, 10, 1) : h \in Hashes}
    \cup {SellOf(1, "ETH", h, 15, 3) : h \in Hashes}
    \cup {BuyOf(2, "ETH", h, 10, 2) : h \in Hashes}
    \cup {SellOf(2, "ETH", h, 6, 3) : h \in Hashes}

\* Two wallets recording in any order around the calculations of wallet 1
NextWallets ==
    \/ \E tx \in TxInputsWallets :
          Len(transactions) < MaxTxRerun /\ RecordTransaction(tx, NextTick)
    \/ Len(runs) < MaxReruns /\ CalculateFifo(1, 2024, None)
    \/ Len(runs) < MaxReruns /\ CalculateLifo(1, 2024, None)
    \/ Len(runs) < MaxReruns /\ CalculateAverageCost(1, 2024, None)

SpecWallets == Init /\ [][NextWallets]_vars

\* The rows of a wallet among the first n rows of the table
WalletRows(wallet_id, n) ==
    SelectSeq(SubSeq(transactions, 1, n), LAMBDA t : t.wallet_id = wallet_id)

\* Two runs of one calculation that saw the same rows of their wallet
SameWalletInput(r1, r2) ==
    /\ r1.method = r2.method
    /\ r1.wallet_id = r2.wallet_id
    /\ r1.year = r2.year
    /\ r1.token = r2.token
    /\ WalletRows(r1.wallet_id, r1.tx_count) = WalletRows(r2.wallet_id, r2.tx_count)

\* C14 (Wallet isolation): every record a calculation for wallet W creates
\* carries wallet_id = W and belongs to a sell of W matched to buys of W, and
\* two calculations for W over tables that differ only in the rows of other
\* wallets return the same result, records and warnings.
C14_WalletIsolation ==
    /\ \A k \in DOMAIN runs :
          LET r == runs[k] IN
          /\ \A n \in DOMAIN r.records :
                /\ r.records[n].wallet_id = r.wallet_id
                /\ TxById(r.records[n].transaction_id).wallet_id = r.wallet_id
          /\ \A n \in DOMAIN r.matches :
                TxById(r.matches[n].buy_id).wallet_id = r.wallet_id
    /\ \A k, l \in DOMAIN runs :
          SameWalletInput(runs[k], runs[l]) =>
              /\ runs[k].result = runs[l].result
              /\ runs[k].records = runs[l].records
              /\ runs[k].warnings = runs[l].warnings

\* Wallet 1 was calculated, wallet 2 then recorded a buy, and wallet 1 was
\* calculated again with a record for its sell
C14_Witness ==
    \E k, l \in DOMAIN runs :
        /\ k < l
        /\ SameWalletInput(runs[k], runs[l])
        /\ runs[k].records # <<>>
        /\ \E i \in (runs[k].tx_count + 1)..runs[l].tx_count :
              /\ transactions[i].wallet_id # runs[k].wallet_id
              /\ transactions[i].tx_type \in BuyTypes

----------------------------------------------------------------------------
(* Average cost beyond the holdings *)

\* C15 (Average-cost oversell is capped): in an average-cost run, a sell of
\* more than the pool holds just before it comes with a shortfall warning, and
\* the cost basis of its record is no more than the total cost of that pool.
C15_AverageOversellCapped ==
    \A k \in DOMAIN runs :
        LET r == runs[k] IN
        (r.method = "AVERAGE_COST" /\ Current(r)) =>
            \A n \in DOMAIN r.records :
                LET sell == TxById(r.records[n].transaction_id)
                    pool == PoolAfter(r, sell.id - 1)
                IN  OrZero(sell.amount_in) > pool.quantity =>
                        /\ Len(WarningsOf(r, sell.id)) >= 1
                        /\ r.records[n].cost_basis <= pool.cost

\* C16 (Average cost on an empty pool is rejected): in an average-cost run, a
\* sell that finds the pool empty, no buy having been recorded before it, gets
\* no tax record.
C16_AverageEmptyPoolRejected ==
    \A k \in DOMAIN runs :
        LET r == runs[k] IN
        (r.method = "AVERAGE_COST" /\ Current(r)) =>
            \A i \in DOMAIN RunSells(r) :
                LET sell == RunSells(r)[i] IN
                NoPriorAcquisition(r, sell) => RecordsOf(r, sell.id) = <<>>

----------------------------------------------------------------------------
(* Summaries over the stored records *)

\* ReportGenerator.generate_tax_report over the stored rows `table`;
\* tax_method is None or Some(method)
TaxReportOf(table, wallet_id, year, tax_method) ==
    LET stored == StoredIn(table, wallet_id, year)
        recs == IF tax_method # None
                THEN SelectSeq(stored, LAMBDA r : r.tax_method = tax_method[1])
                ELSE stored
        of(m) == SelectSeq(recs, LAMBDA r : r.tax_method = m)
    IN  [wallet_id |-> wallet_id, year |-> year,
         summary |-> [total_transactions |-> Len(recs),
                      total_gain_loss |-> SumField(recs, "gain_loss"),
                      total_cost_basis |-> SumField(recs, "cost_basis"),
                      total_proceeds |-> SumField(recs, "proceeds"),
                      estimated_tax_usd |-> EstimatedTax(SumField(recs, "gain_loss"))],
         by_method |-> [m \in MethodsOf(recs) |->
                          [transaction_count |-> Len(of(m)),
                           gain_loss |-> SumField(of(m), "gain_loss"),
                           cost_basis |-> SumField(of(m), "cost_basis"),
                           proceeds |-> SumField(of(m), "proceeds")]]]

GenerateTaxReport(wallet_id, year, tax_method) ==
    TaxReportOf(tax_records, wallet_id, year, tax_method)

\* The stored records of one method for a wallet and year
GroupOf(wallet_id, year, m) ==
    SelectSeq(StoredIn(tax_records, wallet_id, year), LAMBDA r : r.tax_method = m)

\* C17 (Aggregation per wallet, year and method): every total of the annual
\* summary and of the tax report of a wallet and year, the top-level
\* total_gain_loss and estimated tax included, is the sum over the stored
\* records of one method.
C17_AggregationPerMethod ==
    \A wallet_id \in WalletIds :
        LET s == AnnualSummary(wallet_id, 2024)
            rep == GenerateTaxReport(wallet_id, 2024, None)
        IN  /\ \A m \in DOMAIN s.by_method :
                  /\ s.by_method[m].total_gain_loss
                       = SumField(GroupOf(wallet_id, 2024, m), "gain_loss")
                  /\ s.by_method[m].total_cost_basis
                       = SumField(GroupOf(wallet_id, 2024, m), "cost_basis")
                  /\ s.by_method[m].total_proceeds
                       = SumField(GroupOf(wallet_id, 2024, m), "proceeds")
            /\ DOMAIN s.by_method # {} =>
                  \E m \in DOMAIN s.by_method :
                      LET g == SumField(GroupOf(wallet_id, 2024, m), "gain_loss") IN
                      /\ s.total_gain_loss = g
                      /\ s.estimated_tax_usd = EstimatedTax(g)
                      /\ rep.summary.total_gain_loss = g
                      /\ rep.summary.estimated_tax_usd = EstimatedTax(g)

\* Sells above and below the price of the one kind of buy
TxInputsSummary ==
    {BuyOf(1, "ETH", h, 10, 2) : h \in Hashes}
    \cup {SellOf(1, "ETH", h, 6, p) : h \in Hashes, p \in {1, 3}}

\* Recording and calculating in any order, so that the stored records hold
\* gains and losses of several methods
NextSummary ==
    \/ \E tx \in TxInputsSummary :
          Len(transactions) < MaxTxRerun /\ RecordTransaction(tx, NextTick)
    \/ Len(runs) < MaxReruns /\ CalculateFifo(1, 2024, None)
    \/ Len(runs) < MaxReruns /\ CalculateLifo(1, 2024, None)
    \/ Len(runs) < MaxReruns /\ CalculateAverageCost(1, 2024, None)

SpecSummary == Init /\ [][NextSummary]_vars

\* The gains of a sequence of records, and the magnitudes of its losses
RECURSIVE Gains(_)
Gains(recs) ==
    IF recs = <<>> THEN 0
    ELSE (IF Head(recs).gain_loss > 0 THEN Head(recs).gain_loss ELSE 0)
         + Gains(Tail(recs))

RECURSIVE Losses(_)
Losses(recs) ==
    IF recs = <<>> THEN 0
    ELSE (IF Head(recs).gain_loss < 0 THEN 0 - Head(recs).gain_loss ELSE 0)
         + Losses(Tail(recs))

----------------------------------------------------------------------------
(* Fees *)

SellWithFee(hash, q, p, fee) == [SellOf(1, "ETH", hash, q, p) EXCEPT !.fee = fee]

TxInputsFees ==
    {BuyOf(1, "ETH", h, 10, p) : h \in Hashes, p \in {1, 2}}
    \cup {SellWithFee(h, 6, 3, fee) : h \in Hashes, fee \in {0, 1}}
    \cup {SellWithFee(h, 15, 3, 1) : h \in Hashes}

\* A ledger of sells with and without a fee, calculated by lots
NextFees ==
    \/ \E tx \in TxInputsFees :
          /\ runs = <<>>
          /\ Len(transactions) < MaxTx
          /\ RecordTransaction(tx, NextTick)
    \/ Len(runs) < MaxRuns /\ CalculateFifo(1, 2024, Some("ETH"))
    \/ Len(runs) < MaxRuns /\ CalculateLifo(1, 2024, Some("ETH"))

SpecFees == Init /\ [][NextFees]_vars

\* The part of the sell's fee that falls on a portion p of its quantity
FeeShare(sell, p) == RoundHalfEven(Money(sell.fee) * p, OrZero(sell.amount_in))

\* The sell amount, the buy and the sell of the n-th record of a run by lots
PortionOf(r, n) ==
    [p |-> r.matches[n].sell_amount,
     lot |-> TxById(r.matches[n].buy_id),
     sell |-> TxById(r.matches[n].sell_id)]

\* C19 (Record formula with fees), as stated: every FIFO or LIFO record for
\* a portion p of a sell taken from lot L has cost_basis = p times L's unit
\* cost, proceeds = p times the sell's price minus the portion's share of the
\* sell's fee, and gain_loss = proceeds - cost_basis; so a sell with a fee is
\* recorded with strictly less in proceeds than its quantity times its price.
C19_RecordFormulaWithFees ==
    \A k \in DOMAIN runs :
        LET r == runs[k] IN
        r.method \in {"FIFO", "LIFO"} =>
            \A n \in DOMAIN r.records :
                LET x == PortionOf(r, n) IN
                /\ r.records[n].cost_basis = Money(x.p * OrZero(x.lot.price_usd_in))
                /\ r.records[n].proceeds
                     = Money(x.p * OrZero(x.sell.price_usd_out)) - FeeShare(x.sell, x.p)
                /\ r.records[n].gain_loss
                     = r.records[n].proceeds - r.records[n].cost_basis
                /\ x.sell.fee > 0 =>
                      r.records[n].proceeds < Money(x.p * OrZero(x.sell.price_usd_out))

\* C19, amended: every FIFO or LIFO record for a portion p of a sell taken
\* from lot L has cost_basis = p times L's price, proceeds = p times the
\* sell's price whatever the sell's fee, and gain_loss = proceeds -
\* cost_basis.
C19_RecordFormulaFeeIgnored ==
    \A k \in DOMAIN runs :
        LET r == runs[k] IN
        r.method \in {"FIFO", "LIFO"} =>
            /\ Len(r.records) = Len(r.matches)
            /\ \A n \in DOMAIN r.records :
                  LET x == PortionOf(r, n) IN
                  /\ r.records[n].transaction_id = x.sell.id
                  /\ r.records[n].cost_basis = Money(x.p * OrZero(x.lot.price_usd_in))
                  /\ r.records[n].proceeds = Money(x.p * OrZero(x.sell.price_usd_out))
                  /\ r.records[n].gain_loss
                       = r.records[n].proceeds - r.records[n].cost_basis

\* A run by lots recorded a portion of a sell that carries a fee
C19_Witness ==
    \E k \in DOMAIN runs :
        /\ runs[k].method \in {"FIFO", "LIFO"}
        /\ \E n \in DOMAIN runs[k].records :
              /\ PortionOf(runs[k], n).sell.fee > 0
              /\ runs[k].records[n].proceeds > 0

----------------------------------------------------------------------------
(* Transactions without a positive quantity or without a price *)

\* record_transaction stores whatever amounts and prices it is given
TxInputsInvalid ==
    {BuyOf(1, "ETH", h, 10, 1) : h \in Hashes}
    \cup {SellOf(1, "ETH", h, 15, 3) : h \in Hashes}
    \cup {[BuyOf(1, "ETH", h, 10, 1) EXCEPT !.price_usd_in = None] : h \in Hashes}
    \cup {BuyOf(1, "ETH", h, -10, 1) : h \in Hashes}
    \cup {SellOf(1, "ETH", h, q, 3) : h \in Hashes, q \in {0, -6}}
    \cup {[SellOf(1, "ETH", h, 6, 3) EXCEPT !.price_usd_out = None] : h \in Hashes}

NextInvalid ==
    \/ \E tx \in TxInputsInvalid :
          Len(transactions) < MaxTxRerun /\ RecordTransaction(tx, NextTick)
    \/ Len(runs) < MaxReruns /\ CalculateFifo(1, 2024, None)
    \/ Len(runs) < MaxReruns /\ CalculateLifo(1, 2024, None)
    \/ Len(runs) < MaxReruns /\ CalculateAverageCost(1, 2024, None)

SpecInvalid == Init /\ [][NextInvalid]_vars

\* A transaction the claim calls invalid: its quantity is missing, zero or
\* negative, or the price of its side is missing
Invalid(t) ==
    \/ t.tx_type \in BuyTypes
         /\ (t.amount_out = None \/ OrZero(t.amount_out) <= 0 \/ t.price_usd_in = None)
    \/ t.tx_type \in SellTypes
         /\ (t.amount_in = None \/ OrZero(t.amount_in) <= 0 \/ t.price_usd_out = None)

\* C20 (Invalid transactions are rejected one by one): an invalid transaction
\* contributes nothing: no record is created for an invalid sell, no portion
\* is drawn from an invalid buy, and a calculation repeated after only invalid
\* transactions were recorded returns the result and the records it returned
\* before.
C20_InvalidRejected ==
    /\ \A k \in DOMAIN runs :
          LET r == runs[k] IN
          /\ \A n \in DOMAIN r.records :
                ~ Invalid(TxById(r.records[n].transaction_id))
          /\ \A n \in DOMAIN r.matches :
                ~ Invalid(TxById(r.matches[n].buy_id))
    /\ \A k, l \in DOMAIN runs :
          (/\ k < l
           /\ runs[k].method = runs[l].method
           /\ runs[k].wallet_id = runs[l].wallet_id
           /\ runs[k].year = runs[l].year
           /\ runs[k].token = runs[l].token
           /\ \A i \in (runs[k].tx_count + 1)..runs[l].tx_count :
                 Invalid(transactions[i])) =>
              /\ runs[k].result = runs[l].result
              /\ runs[k].records = runs[l].records

----------------------------------------------------------------------------
(* The loops of calculate_fifo and calculate_lifo *)

\* Buys and sells with a positive, zero, negative or missing quantity
TxInputsLoop ==
    LET h == Len(transactions) + 1 IN
    {BuyOf(1, "ETH", h, q, 1) : q \in {10, 0, -10}}
    \cup {[BuyOf(1, "ETH", h, 10, 1) EXCEPT !.amount_out = None]}
    \cup {SellOf(1, "ETH", h, q, 3) : q \in {4, 15, -6}}
    \cup {[SellOf(1, "ETH", h, 4, 3) EXCEPT !.amount_in = None]}

NextLoop ==
    \/ \E tx \in TxInputsLoop :
          /\ runs = <<>>
          /\ Len(transactions) < MaxTx
          /\ RecordTransaction(tx, NextTick)
    \/ Len(runs) < MaxRuns /\ CalculateFifo(1, 2024, Some("ETH"))
    \/ Len(runs) < MaxRuns /\ CalculateLifo(1, 2024, Some("ETH"))

SpecLoop == Init /\ [][NextLoop]_vars

\* C21 (Termination): a FIFO or LIFO run ends after at most two iterations of
\* the while loop per buy and one per sell: an iteration either moves
\* buy_index on, or matches a portion that brings the sell's remaining
\* quantity or the lot's available quantity to zero.
C21_Termination ==
    \A k \in DOMAIN runs :
        LET r == runs[k] IN
        r.method \in {"FIFO", "LIFO"} =>
            /\ Len(r.ends) = Len(RunSells(r))
            /\ r.iterations <= 2 * Len(RunBuys(r)) + Len(RunSells(r))
            /\ r.iterations >= Len(r.matches)
            /\ r.iterations - Len(r.matches) <= Len(RunBuys(r))
            /\ \A n \in DOMAIN r.matches :
                  LET m == r.matches[n] IN
                  /\ m.sell_amount > 0
                  /\ \/ m.sell_amount = m.available
                     \/ /\ UnmatchedOf(r, m.sell_id) = 0
                        /\ \A j \in DOMAIN r.matches :
                              r.matches[j].sell_id = m.sell_id => j <= n

\* A run over buys and sells without a positive quantity whose loop both
\* moved past a lot and matched portions
C21_Witness ==
    \E k \in DOMAIN runs :
        /\ runs[k].method \in {"FIFO", "LIFO"}
        /\ runs[k].iterations > Len(runs[k].matches)
        /\ Len(runs[k].matches) >= 2
        /\ \E i \in DOMAIN transactions :
              OrZero(transactions[i].amount_out) + OrZero(transactions[i].amount_in) <= 0

----------------------------------------------------------------------------
(* The pool of the average-cost method over several sells *)

\* The cost of the buys of the run that were recorded before the sell
RECURSIVE CostAcquiredBefore(_, _)
CostAcquiredBefore(buys, sell) ==
    IF buys = <<>> THEN 0
    ELSE (IF NotAfter(Head(buys).created_at, sell.created_at)
          THEN Money(OrZero(Head(buys).amount_out) * OrZero(Head(buys).price_usd_in))
          ELSE 0)
         + CostAcquiredBefore(Tail(buys), sell)

\* C22 (Average pool shrinks on disposal): in an average-cost run each sell
\* takes its cost basis out of the pool, so the cost bases of the records up
\* to and including any sell add up to no more than the cost of the buys
\* recorded before that sell.
C22_AveragePoolShrinks ==
    \A k \in DOMAIN runs :
        LET r == runs[k] IN
        (r.method = "AVERAGE_COST" /\ Current(r)) =>
            \A n \in DOMAIN r.records :
                SumField(SubSeq(r.records, 1, n), "cost_basis")
                  <= CostAcquiredBefore(RunBuys(r), TxById(r.records[n].transaction_id))

----------------------------------------------------------------------------
(* Lots and records of the runs by lots *)

\* C23 (Lot bounds): in a FIFO or LIFO run, what has been taken from the
\* current lot before and after each match lies between 0 and the lot's
\* amount_out, the portions drawn from one lot over the whole run add up to no
\* more than its amount_out, and no match draws from a lot placed before the
\* lot of an earlier match.
C23_LotBounds ==
    \A k \in DOMAIN runs :
        LET r == runs[k]
            m == r.matches
        IN
        (r.method \in {"FIFO", "LIFO"} /\ Current(r)) =>
            /\ \A n \in DOMAIN m :
                  LET original == OrZero(TxById(m[n].buy_id).amount_out)
                      consumed == original - m[n].available
                  IN  /\ 0 <= consumed
                      /\ consumed = DrawnFrom(m, m[n].buy_id, n - 1)
                      /\ consumed + m[n].sell_amount <= original
            /\ \A i \in DOMAIN RunBuys(r) :
                  DrawnFrom(m, RunBuys(r)[i].id, Len(m)) <= OrZero(RunBuys(r)[i].amount_out)
            /\ \A n1, n2 \in DOMAIN m :
                  n1 < n2 => LotIndex(r, m[n1].buy_id) <= LotIndex(r, m[n2].buy_id)

\* A lot was drawn from twice and used up, and a later match went on to the
\* next lot
C23_Witness ==
    \E k \in DOMAIN runs :
        LET m == runs[k].matches IN
        /\ runs[k].method \in {"FIFO", "LIFO"}
        /\ Len(m) >= 3
        /\ m[1].buy_id = m[2].buy_id
        /\ m[1].sell_amount + m[2].sell_amount = OrZero(TxById(m[1].buy_id).amount_out)
        /\ m[3].buy_id # m[2].buy_id

\* The lots a sell drew from in a run
LotsDrawn(r, sell_id) ==
    {MatchesOf(r, sell_id)[n].buy_id : n \in DOMAIN MatchesOf(r, sell_id)}

\* C24 (One record per disposal-to-lot match): in a FIFO or LIFO run, each
\* sell has as many tax records as there are lots it drew from, no sell draws
\* twice from one lot, and every record stands for a portion greater than
\* zero.
C24_OneRecordPerMatch ==
    \A k \in DOMAIN runs :
        LET r == runs[k] IN
        r.method \in {"FIFO", "LIFO"} =>
            /\ \A j \in DOMAIN r.ends :
                  Len(RecordsOf(r, r.ends[j].sell_id))
                    = Cardinality(LotsDrawn(r, r.ends[j].sell_id))
            /\ \A n1, n2 \in DOMAIN r.matches :
                  (/\ r.matches[n1].sell_id = r.matches[n2].sell_id
                   /\ r.matches[n1].buy_id = r.matches[n2].buy_id) => n1 = n2
            /\ \A n \in DOMAIN r.matches : r.matches[n].sell_amount > 0
            /\ \A n \in DOMAIN r.records :
                  \E j \in DOMAIN r.ends : r.ends[j].sell_id = r.records[n].transaction_id

\* One sell has two records, drawn from two lots, and another sell has one
C24_Witness ==
    \E k \in DOMAIN runs :
        /\ runs[k].method \in {"FIFO", "LIFO"}
        /\ \E j1, j2 \in DOMAIN runs[k].ends :
              /\ Cardinality(LotsDrawn(runs[k], runs[k].ends[j1].sell_id)) = 2
              /\ Len(RecordsOf(runs[k], runs[k].ends[j2].sell_id)) = 1

----------------------------------------------------------------------------
(* Several years *)

Years == {2023, 2024}

\* A clock reading in the given year, one tick after the latest row
TickIn(year) == [year |-> year, tick |-> Len(transactions) + 1]

TxInputsYears ==
    LET h == Len(transactions) + 1 IN
    {BuyOf(1, "ETH", h, 10, 1)} \cup {SellOf(1, "ETH", h, q, 3) : q \in {6, 15}}

\* A ledger that runs from one year into the next, calculated for either year
NextYears ==
    \/ \E tx \in TxInputsYears, year \in Years :
          /\ runs = <<>>
          /\ Len(transactions) < MaxTx
          /\ NotAfter(LatestCreatedAt, TickIn(year))
          /\ RecordTransaction(tx, TickIn(year))
    \/ \E year \in Years :
          Len(runs) < MaxRuns /\ CalculateFifo(1, year, Some("ETH"))
    \/ \E year \in Years :
          Len(runs) < MaxRuns /\ CalculateLifo(1, year, Some("ETH"))
    \/ \E year \in Years :
          Len(runs) < MaxRuns /\ CalculateAverageCost(1, year, Some("ETH"))

SpecYears == Init /\ [][NextYears]_vars

\* C25 (Tax year labelling): every tax record of a FIFO, LIFO or average-cost
\* run carries the calendar year of created_at of the sell it belongs to.
C25_TaxYearLabelling ==
    \A k \in DOMAIN runs :
        \A n \in DOMAIN runs[k].records :
            runs[k].records[n].year
              = TxById(runs[k].records[n].transaction_id).created_at.year

\* A ledger with rows of both years, a buy of 2023 among them, was calculated
\* for 2024 and a record was created
C25_Witness ==
    \E k \in DOMAIN runs :
        /\ runs[k].year = 2024
        /\ runs[k].records # <<>>
        /\ \E i, j \in DOMAIN transactions :
              /\ transactions[i].created_at.year = 2023
              /\ transactions[i].tx_type \in BuyTypes
              /\ transactions[j].created_at.year = 2023
              /\ transactions[j].tx_type \in SellTypes

\* What the wallet holds of the run's token just before the sell, by the
\* rows of every year: amounts bought minus amounts sold
RECURSIVE HeldBefore(_, _, _)
HeldBefore(r, sell, n) ==
    IF n = 0 THEN 0
    ELSE LET t == transactions[n]
             earlier == t.id # sell.id /\ NotAfter(t.created_at, sell.created_at)
         IN  (IF earlier /\ BuyFilter(t, r.wallet_id, t.created_at.year, r.token)
              THEN OrZero(t.amount_out)
              ELSE IF earlier /\ SellFilter(t, r.wallet_id, t.created_at.year, r.token)
              THEN 0 - OrZero(t.amount_in)
              ELSE 0)
             + HeldBefore(r, sell, n - 1)

\* C26 (The tax year does not affect matching): a sell of the year of the run
\* that the holdings cover, lots bought in earlier years included, is matched
\* in full by a FIFO or LIFO run, and gets a cost basis above zero in an
\* average-cost run.
C26_YearDoesNotAffectMatching ==
    \A k \in DOMAIN runs :
        LET r == runs[k] IN
        Current(r) =>
            \A i \in DOMAIN RunSells(r) :
                LET sell == RunSells(r)[i] IN
                HeldBefore(r, sell, Len(transactions)) >= OrZero(sell.amount_in) =>
                    IF r.method = "AVERAGE_COST"
                    THEN SumField(RecordsOf(r, sell.id), "cost_basis") > 0
                    ELSE /\ UnmatchedOf(r, sell.id) = 0
                         /\ SumAmounts(MatchesOf(r, sell.id)) = OrZero(sell.amount_in)

----------------------------------------------------------------------------
(* Calculations that raise *)

TxInputsRaise ==
    LET h == Len(transactions) + 1 IN
    {BuyOf(1, "ETH", h, 10, 1)} \cup {SellOf(1, "ETH", h, q, 3) : q \in {6, 15}}

\* A ledger, then calculations, each of which returns or raises part-way
NextRaise ==
    \/ \E tx \in TxInputsRaise :
          /\ runs = <<>>
          /\ Len(transactions) < MaxTxRerun
          /\ RecordTransaction(tx, NextTick)
    \/ Len(runs) < MaxReruns /\ CalculateFifo(1, 2024, None)
    \/ Len(runs) < MaxReruns /\ CalculateLifo(1, 2024, None)
    \/ Len(runs) < MaxReruns /\ CalculateAverageCost(1, 2024, None)
    \/ \E j \in 0..MaxTxRerun :
          Len(runs) < MaxReruns /\ CalculateFifoRaises(1, 2024, None, j)
    \/ \E j \in 0..MaxTxRerun :
          Len(runs) < MaxReruns /\ CalculateLifoRaises(1, 2024, None, j)
    \/ \E j \in 0..MaxTxRerun :
          Len(runs) < MaxReruns /\ CalculateAverageCostRaises(1, 2024, None, j)

SpecRaise == Init /\ [][NextRaise]_vars

\* C27 (All-or-nothing persistence of a calculation): a call that raises
\* leaves the stored tax records as they were before the call, whatever it
\* had added to the session; a call that returns stores all the records it
\* added, after the ones stored before.
C27_AllOrNothing ==
    [][runs' # runs =>
         LET r == runs'[Len(runs')] IN
         IF r.raised THEN tax_records' = tax_records
         ELSE tax_records' = tax_records \o r.records]_vars

\* A call raised after adding records, with records of an earlier call in
\* store, and the store holds the earlier records only
C27_Witness ==
    \E k \in DOMAIN runs :
        /\ runs[k].raised
        /\ runs[k].records # <<>>
        /\ runs[k].stored_before > 0
        /\ k = Len(runs)
        /\ Len(tax_records) = runs[k].stored_before

----------------------------------------------------------------------------
(* The results of the runs by lots *)

\* C28 (FIFO result consistency): in the result of a FIFO run,
\* tax_records_count is the number of tax records the run created,
\* total_proceeds and total_cost_basis are the sums over those records, and
\* total_gain_loss is total_proceeds - total_cost_basis.
C28_FifoResultConsistency ==
    \A k \in DOMAIN runs :
        LET r == runs[k] IN
        r.method = "FIFO" =>
            /\ r.result.tax_records_count = Some(Len(r.records))
            /\ r.result.total_proceeds = SumField(r.records, "proceeds")
            /\ r.result.total_cost_basis = SumField(r.records, "cost_basis")
            /\ r.result.total_gain_loss
                 = r.result.total_proceeds - r.result.total_cost_basis

\* Two lots of different price and sells that can use them up
TxInputsLiquidation ==
    LET h == Len(transactions) + 1 IN
    {BuyOf(1, "ETH", h, 10, p) : p \in {1, 2}}
    \cup {SellOf(1, "ETH", h, q, 3) : q \in {5, 15}}

\* A ledger, then calculations by lots on it
NextLiquidation ==
    \/ \E tx \in TxInputsLiquidation :
          /\ runs = <<>>
          /\ Len(transactions) < MaxTx
          /\ RecordTransaction(tx, NextTick)
    \/ Len(runs) < MaxReruns /\ CalculateFifo(1, 2024, Some("ETH"))
    \/ Len(runs) < MaxReruns /\ CalculateLifo(1, 2024, Some("ETH"))

SpecLiquidation == Init /\ [][NextLiquidation]_vars

\* The amounts of the sells a run selects
RECURSIVE TotalSold(_)
TotalSold(sells) ==
    IF sells = <<>> THEN 0
    ELSE OrZero(Head(sells).amount_in) + TotalSold(Tail(sells))

\* The run sold as much as was bought
FullLiquidation(r) ==
    /\ RunBuys(r) # <<>>
    /\ TotalSold(RunSells(r)) = TotalBought(RunBuys(r))

\* C29 (Full liquidation makes the methods agree): when the sells of a run
\* add up to the amount bought, positive quantities and prices throughout, a
\* FIFO and a LIFO run on the same rows leave no sell unmatched and return
\* the same total_cost_basis, the sum over the lots of amount times price,
\* the same total_proceeds and the same total_gain_loss.
C29_FullLiquidationAgreement ==
    \A k, l \in DOMAIN runs :
        LET f == runs[k]
            g == runs[l]
        IN
        (/\ f.method = "FIFO" /\ g.method = "LIFO"
         /\ SameInput(f, g)
         /\ FullLiquidation(f)) =>
            /\ \A j \in DOMAIN f.ends : f.ends[j].remaining_to_sell = 0
            /\ \A j \in DOMAIN g.ends : g.ends[j].remaining_to_sell = 0
            /\ f.result.total_cost_basis = Money(TotalCost(RunBuys(f)))
            /\ g.result.total_cost_basis = f.result.total_cost_basis
            /\ g.result.total_proceeds = f.result.total_proceeds
            /\ g.result.total_gain_loss = f.result.total_gain_loss

\* Two lots of different price were sold off by two sells, and the FIFO and
\* the LIFO run gave the first sell different cost bases
C29_Witness ==
    \E k, l \in DOMAIN runs :
        /\ runs[k].method = "FIFO" /\ runs[l].method = "LIFO"
        /\ SameInput(runs[k], runs[l])
        /\ FullLiquidation(runs[k])
        /\ Len(RunSells(runs[k])) = 2
        /\ runs[k].records[1].cost_basis # runs[l].records[1].cost_basis

============================================================================
